---- MODULE Spec2Model ----
(***************************************************************************)
(* A model of broh5's display-state reconciler: GuiInteraction.show_data,  *)
(* which a ui.timer calls every UPDATE_RATE seconds, the render strategies *)
(* it dispatches to, and the user's handlers that change what it samples.  *)
(* HDF files are modelled by a catalogue of nodes (what h5py answers for a *)
(* (file path, key) pair).  What can change under the viewer, a file       *)
(* becoming unreadable and an external link's target going away, is chosen *)
(* anew at every tick that reads.                                          *)
(***************************************************************************)
EXTENDS Integers, Sequences, FiniteSets, TLC

----------------------------------------------------------------------------
(* Bounds of the model *)

\* user inputs that can happen between two polling ticks
MaxBurst == 1
\* how many entries of CMAP_LIST and MARKER_LIST the user chooses among
MaxChoice == 2
\* largest slice-slider position the user drags to
MaxPos == 2
\* fetching ticks that are counted after an input
MaxCount == 2
\* tree cards open at the same time
MaxCards == 1
\* controls besides slice, axis and display type that are off their
\* initial value at the same time
MaxTweaks == 1

----------------------------------------------------------------------------
(* Global parameters of the GUI: rendering.py *)

MARKER_LIST == <<",", ".", "o", "x">>
CMAP_LIST == <<"gray", "inferno", "afmhot", "viridis", "magma">>
AXIS_LIST == <<0, 1, 2>>
DISPLAY_TYPE == <<"plot", "table">>
\* ui.slider(min=0, max=100, value=0): the slice slider as constructed
SLIDER_MAX_INIT == 100
\* ui.slider(min=1, max=255, value=255): the max-contrast slider
CONTRAST_MAX == 255
\* format_table_from_array: height > 1000 and width > 1000 gives no table
TABLE_LIMIT == 1000
\* display_3d_data: depth > 1000 and height > 1000 is "very time-consuming"
BIG_DIM == 1000

None == <<>>

IMAGE_WIDGETS ==
    {"main_slider", "max_slider", "min_slider", "axis_list", "cmap_list",
     "enable_zoom", "zoom_list", "enable_profile", "profile_list",
     "save_image_button"}

PLOT_WIDGETS == {"display_type", "marker_list", "save_data_button"}

----------------------------------------------------------------------------
(* The files on disk.  A node says what h5py answers for a key of a file:  *)
(*   cls    how the dataset's dtype and size make get_hdf_data classify it *)
(*   shape  the dataset's shape                                            *)
(*   text   str(value) for what get_hdf_data returns as value              *)
(*   codec  the data is stored with a compression filter that is not       *)
(*          available: the header reads, the data does not                 *)
(*   link   the key is an external link into another file                  *)
(* A behaviour runs on one of the Disks; the variable disk says which.     *)

Leaf(cls, shape, text, codec, link) ==
    [cls |-> cls, shape |-> shape, text |-> text, codec |-> codec,
     link |-> link]

Absent == Leaf("absent", <<>>, "", FALSE, FALSE)
Group == Leaf("group", <<>>, "", FALSE, FALSE)
Array(shape, text) == Leaf("numarray", shape, text, FALSE, FALSE)

Disks == {"plain", "pair", "faulty", "mixed", "wide"}

Catalogue(d) ==
    CASE d = "plain" ->
            [f \in {"f1"} |->
                [k \in {"a3", "b3", "v1"} |->
                    CASE k = "a3" -> Array(<<2, 3, 4>>, "(2, 3, 4)")
                      [] k = "b3" -> Array(<<3, 2, 2>>, "(3, 2, 2)")
                      [] k = "v1" -> Array(<<3>>, "(3,)")]]
      [] d = "pair" ->
            [f \in {"f1", "f2"} |->
                IF f = "f1"
                THEN [k \in {"/", "a3"} |->
                        CASE k = "/"  -> Group
                          [] k = "a3" -> Array(<<2, 3, 4>>, "(2, 3, 4)")]
                ELSE [k \in {"a3"} |-> Array(<<2, 2, 3>>, "(2, 2, 3)")]]
      [] d = "faulty" ->
            [f \in {"f1"} |->
                [k \in {"zn", "z3", "x3"} |->
                    CASE k = "zn" -> Leaf("number", <<>>, "1", TRUE, FALSE)
                      [] k = "z3" -> Leaf("numarray", <<2, 2, 2>>,
                                          "(2, 2, 2)", TRUE, FALSE)
                      [] k = "x3" -> Leaf("numarray", <<2, 2, 2>>,
                                          "(2, 2, 2)", FALSE, TRUE)]]
      [] d = "mixed" ->
            [f \in {"f1"} |->
                [k \in {"num", "s3", "t4", "w3"} |->
                    CASE k = "num" -> Leaf("number", <<>>, "7", FALSE, FALSE)
                      [] k = "w3" -> Array(<<1001, 1002, 1003>>,
                                           "(1001, 1002, 1003)")
                      [] k = "s3" -> Leaf("strarray", <<3>>,
                                          "['a', 'b', 'c']", FALSE, FALSE)
                      [] k = "t4" -> Array(<<2, 2, 2, 2>>,
                                           "(2, 2, 2, 2)")]]
      [] d = "wide" ->
            [f \in {"f1"} |->
                [k \in {"m2"} |-> Array(<<1001, 1002>>, "(1001, 1002)")]]

\* str(error) of the exceptions h5py raises
OPEN_ERROR == "Unable to open file"
LINK_ERROR == "Unable to open object"
CODEC_ERROR == "Can't read data (filter unavailable)"
UNPACK_ERROR == "not enough values to unpack"
TABLE_ERROR == "can only assign an iterable"
ATTR_ERROR == "object has no attribute"

----------------------------------------------------------------------------
VARIABLES
    disk,         \* which of the Disks the viewer runs on
    gui,          \* the GuiInteraction instance: widget values and self.* fields
    cards,        \* the tree cards in tree_container, one file path each
    last,         \* what the last handler did: reads, notices, exceptions
    burst,        \* user inputs since the last polling tick
    passes,       \* fetching ticks since the last input, if that input came
                  \* when no fetch was pending and the files have not
                  \* changed since; Untracked otherwise
    job           \* the last call of a function that is modelled on its
                  \* own, with its arguments and what it returned

vars == <<disk, gui, cards, last, burst, passes, job>>

\* no such call yet
NoJob == [op |-> "none"]

Files == DOMAIN Catalogue(disk)

\* the labels of the tree that hdf_tree_to_dict builds for a file
TreeKeys(f) == DOMAIN Catalogue(disk)[f]

Node(f, k) ==
    IF f \in Files /\ k \in TreeKeys(f) THEN Catalogue(disk)[f][k]
    ELSE Absent

----------------------------------------------------------------------------
(* GuiRendering.init_gui and GuiInteraction.__init__ *)

\* what a figure shows: the kind of drawing, the data drawn and the
\* overlays (ROI rectangle, profile lines) added to its axes
BlankFigure == [kind |-> "blank", src |-> None, overlays |-> {}]

init_gui ==
    [file_path_display |-> "", hdf_key_display |-> "",
     hdf_value_display |-> "",
     axis_list |-> AXIS_LIST[1], cmap_list |-> CMAP_LIST[1],
     enable_zoom |-> FALSE, enable_profile |-> FALSE,
     display_type |-> DISPLAY_TYPE[1], marker_list |-> MARKER_LIST[1],
     main_slider |-> 0, slider_max |-> SLIDER_MAX_INIT,
     min_slider |-> 0, max_slider |-> CONTRAST_MAX,
     selected_tab |-> 1,
     enabled |-> IMAGE_WIDGETS \cup PLOT_WIDGETS,
     visible |-> {"main_table", "main_plot", "zoom_profile_plot",
                  "histogram_plot", "image_info_table"},
     main_plot |-> BlankFigure,
     current_state |-> None, image |-> None, image_norm |-> None,
     current_slice |-> None, data_1d_2d |-> None]

\* what a handler leaves in `last` when it reads nothing and raises nothing
Idle(op) ==
    [op |-> op, fetched |-> FALSE, reads |-> 0, open |-> 0, raised |-> "",
     error |-> "", diag |-> <<>>, notes |-> <<>>, escaped |-> FALSE,
     route |-> "", lost |-> FALSE, link |-> "up"]

----------------------------------------------------------------------------
(* Widget helpers of GuiInteraction *)

disable_sliders(g) ==
    [g EXCEPT !.main_slider = 0, !.min_slider = 0,
              !.max_slider = CONTRAST_MAX,
              !.enabled = @ \ {"main_slider", "min_slider", "max_slider"}]

\* a variant of enable_ui_elements_3d_data that keeps self.data_1d_2d
enable_ui_elements_3d_data_keep(g) ==
    [g EXCEPT
        !.enabled = (@ \cup IMAGE_WIDGETS) \ PLOT_WIDGETS,
        !.visible =
            ((@ \cup {"main_plot", "histogram_plot", "image_info_table"})
                \ {"main_table", "zoom_profile_plot"})
            \cup (IF g.enable_profile \/ g.enable_zoom
                  THEN {"zoom_profile_plot"} ELSE {}),
        !.image_norm = IF g.enable_profile \/ g.enable_zoom THEN @ ELSE None]

enable_ui_elements_3d_data(g) ==
    [g EXCEPT
        !.enabled = (@ \cup IMAGE_WIDGETS) \ PLOT_WIDGETS,
        !.visible =
            ((@ \cup {"main_plot", "histogram_plot", "image_info_table"})
                \ {"main_table", "zoom_profile_plot"})
            \cup (IF g.enable_profile \/ g.enable_zoom
                  THEN {"zoom_profile_plot"} ELSE {}),
        !.image_norm = IF g.enable_profile \/ g.enable_zoom THEN @ ELSE None,
        !.data_1d_2d = None]

\* a variant of enable_ui_elements_1d_2d_data that leaves the save-image
\* button as it was
enable_ui_elements_1d_2d_data_save(g) ==
    LET g1 == disable_sliders([g EXCEPT !.image = None, !.image_norm = None])
    IN  [g1 EXCEPT
            !.axis_list = AXIS_LIST[1], !.cmap_list = CMAP_LIST[1],
            !.enabled = (@ \ (IMAGE_WIDGETS \ {"save_image_button"}))
                            \cup PLOT_WIDGETS,
            !.visible = @ \ {"histogram_plot", "image_info_table",
                             "zoom_profile_plot"},
            !.selected_tab = 1]

\* a variant of enable_ui_elements_1d_2d_data that selects the other tab
enable_ui_elements_1d_2d_data_flip(g) ==
    LET g1 == disable_sliders([g EXCEPT !.image = None, !.image_norm = None])
    IN  [g1 EXCEPT
            !.axis_list = AXIS_LIST[1], !.cmap_list = CMAP_LIST[1],
            !.enabled = (@ \ IMAGE_WIDGETS) \cup PLOT_WIDGETS,
            !.visible = @ \ {"histogram_plot", "image_info_table",
                             "zoom_profile_plot"},
            !.selected_tab = 3 - @]

enable_ui_elements_1d_2d_data(g) ==
    LET g1 == disable_sliders([g EXCEPT !.image = None, !.image_norm = None])
    IN  [g1 EXCEPT
            !.axis_list = AXIS_LIST[1], !.cmap_list = CMAP_LIST[1],
            !.enabled = (@ \ IMAGE_WIDGETS) \cup PLOT_WIDGETS,
            !.visible = @ \ {"histogram_plot", "image_info_table",
                             "zoom_profile_plot"},
            !.selected_tab = 1]

reset(g, keep_display) ==
    LET g1 == [g EXCEPT
                !.hdf_key_display = IF keep_display THEN @ ELSE "",
                !.file_path_display = IF keep_display THEN @ ELSE "",
                !.hdf_value_display = IF keep_display THEN @ ELSE "",
                !.axis_list = AXIS_LIST[1], !.cmap_list = CMAP_LIST[1],
                !.display_type = DISPLAY_TYPE[1],
                !.marker_list = MARKER_LIST[1],
                !.enable_zoom = FALSE, !.enable_profile = FALSE,
                !.enabled = @ \ {"axis_list", "cmap_list", "display_type",
                                 "marker_list", "enable_zoom", "zoom_list",
                                 "enable_profile", "profile_list"}]
        g2 == disable_sliders(g1)
    IN  [g2 EXCEPT
            !.image = None, !.image_norm = None, !.data_1d_2d = None,
            !.visible = (@ \cup {"main_plot"})
                        \ {"main_table", "zoom_profile_plot",
                           "histogram_plot", "image_info_table"},
            !.enabled = @ \ {"save_image_button", "save_data_button"},
            !.selected_tab = 1]

reset_min_max(g) == [g EXCEPT !.min_slider = 0, !.max_slider = CONTRAST_MAX]

clear_plot(g) == [g EXCEPT !.main_plot = BlankFigure]

----------------------------------------------------------------------------
(* utilities.py: the reads of a file.  `bad` is the set of unreadable      *)
(* files and `up` says whether the external links' target is reachable at  *)
(* the time of the call.  exc is the str() of the exception the call       *)
(* raises, "" when it returns.                                             *)

IsScalar(cls) == cls \in {"string", "number", "boolean"}

get_hdf_data(file_path, dataset_path, bad, up) ==
    LET n == Node(file_path, dataset_path)
        Ret(data_type, text, dim, swallowed) ==
            [exc |-> "", data_type |-> data_type, text |-> text, dim |-> dim,
             swallowed |-> swallowed]
    IN  IF file_path \in bad
        THEN [exc |-> OPEN_ERROR, data_type |-> "", text |-> "", dim |-> 0,
              swallowed |-> ""]
        ELSE IF n.cls = "absent" THEN Ret("not path", "", 0, "")
        \* a dangling link is `in` the file; file[dataset_path] raises
        \* inside the try and the error comes back as the data type
        ELSE IF n.link /\ ~up THEN Ret(LINK_ERROR, "", 0, LINK_ERROR)
        ELSE IF n.cls = "group" THEN Ret("group", "", 0, "")
        \* strings, numbers and booleans are read with item[()]
        ELSE IF (IsScalar(n.cls) \/ n.cls = "strarray") /\ n.codec
        THEN Ret(CODEC_ERROR, "", 0, CODEC_ERROR)
        ELSE IF IsScalar(n.cls) THEN Ret(n.cls, n.text, 0, "")
        \* value is the list of decoded strings: len(value) is their number
        ELSE IF n.cls = "strarray" THEN Ret("array", n.text, n.shape[1], "")
        \* value is item.shape: len(value) is the number of dimensions
        ELSE IF n.cls = "numarray"
        THEN Ret("array", n.text, Len(n.shape), "")
        ELSE Ret("unknown", "", 0, "")

LINK_OK_MSG == "Dataset is an external link"
LINK_BROKEN_MSG == "Dataset is an external link but failed to link"
NOT_FOUND_MSG == "Dataset path not found in the file."
CODEC_MSG == "Dataset is compressed using external plugin"

check_external_link(file_path, dataset_path, bad, up) ==
    LET n == Node(file_path, dataset_path)
    IN  IF file_path \in bad
        THEN [exc |-> OPEN_ERROR, ext_link |-> FALSE, broken |-> FALSE,
              msg |-> ""]
        ELSE IF n.cls = "absent"
        THEN [exc |-> "", ext_link |-> FALSE, broken |-> FALSE,
              msg |-> NOT_FOUND_MSG]
        ELSE IF n.link
        THEN [exc |-> "", ext_link |-> TRUE, broken |-> ~up,
              msg |-> IF up THEN LINK_OK_MSG ELSE LINK_BROKEN_MSG]
        ELSE [exc |-> "", ext_link |-> FALSE, broken |-> FALSE, msg |-> ""]

check_compressed_dataset(file_path, dataset_path, bad, up) ==
    LET n == Node(file_path, dataset_path)
    IN  IF file_path \in bad
        THEN [exc |-> OPEN_ERROR, ext_compressed |-> FALSE, msg |-> ""]
        ELSE IF n.cls = "absent"
        THEN [exc |-> "", ext_compressed |-> FALSE, msg |-> NOT_FOUND_MSG]
        \* dataset = file[dataset_path] is not guarded
        ELSE IF n.link /\ ~up
        THEN [exc |-> LINK_ERROR, ext_compressed |-> FALSE, msg |-> ""]
        \* a Group has no attribute compression
        ELSE IF n.cls = "group"
        THEN [exc |-> ATTR_ERROR, ext_compressed |-> FALSE, msg |-> ""]
        ELSE IF n.codec
        THEN [exc |-> "", ext_compressed |-> TRUE, msg |-> CODEC_MSG]
        ELSE [exc |-> "", ext_compressed |-> FALSE, msg |-> ""]

\* format_table_from_array gives rows, columns = None, None
TableRejected(shape) ==
    LET h0 == shape[1]
        w0 == IF Len(shape) = 1 THEN 1 ELSE shape[2]
        height == IF w0 > h0 THEN w0 ELSE h0
        width == IF w0 > h0 THEN h0 ELSE w0
    IN  height > TABLE_LIMIT /\ width > TABLE_LIMIT

----------------------------------------------------------------------------
(* The render strategies.  A strategy returns the instance as it leaves    *)
(* it, the exception it raises ("" when it returns) and its notices.       *)
(* A plane of a 3-D dataset is named by where it was read from:            *)
(* <<file, key, axis, index>>.                                             *)

AXIS2_MSG == "Slicing along axis 2 is very time-consuming!"
AXIS1_MSG == "Slicing along axis 1 can take time !"

Clip(x, lo, hi) ==
    \* np.clip is minimum(hi, maximum(x, lo)): hi when lo > hi
    LET raised == IF x < lo THEN lo ELSE x
    IN  IF raised > hi THEN hi ELSE raised

\* a variant of clamp_min that clamps to max_val itself
clamp_min_to_max(min_val, max_val) ==
    IF min_val >= max_val THEN Clip(max_val, 0, CONTRAST_MAX - 1)
    ELSE min_val

\* if min_val >= max_val: min_val = np.clip(max_val - 1, 0, 254)
clamp_min(min_val, max_val) ==
    IF min_val >= max_val THEN Clip(max_val - 1, 0, CONTRAST_MAX - 1)
    ELSE min_val

\* a variant of large_slice_policy that only warns about axis 2
large_slice_policy_warn(axis, depth, height, width) ==
    IF axis = 2 /\ depth > BIG_DIM /\ height > BIG_DIM THEN "warn"
    ELSE IF axis = 1 /\ depth > BIG_DIM /\ width > BIG_DIM THEN "warn"
    ELSE "read"

\* what display_3d_data does when it has to read a plane along axis: fall
\* back to plane 0 of axis 0, warn and read, or just read
large_slice_policy(axis, depth, height, width) ==
    IF axis = 2 /\ depth > BIG_DIM /\ height > BIG_DIM THEN "fallback"
    ELSE IF axis = 1 /\ depth > BIG_DIM /\ width > BIG_DIM THEN "warn"
    ELSE "read"

display_3d_data(g0, file_path, key) ==
    LET \* min_val, max_val of the contrast sliders and the drawing
        contrast(g4, notes) ==
            LET min0 == g4.min_slider
                max1 == g4.max_slider
                stretch == min0 > 0 \/ max1 < CONTRAST_MAX
                min_val == IF stretch THEN clamp_min(min0, max1) ELSE min0
                norm == IF stretch THEN g4.image \o <<min_val, max1>>
                        ELSE g4.image
            IN  [g |-> [g4 EXCEPT
                            !.min_slider = min_val,
                            !.image_norm = norm,
                            !.main_plot = [kind |-> "image", src |-> norm,
                                           overlays |-> {}]],
                 exc |-> "", notes |-> notes]
        \* new_slice and the read of the plane
        slice(g2, n, d_pos, depth, height, width) ==
            LET new_slice == <<g2.main_slider, g2.axis_list,
                               g2.file_path_display>>
                read == new_slice # g2.current_slice \/ g2.image = None
                policy == large_slice_policy(g2.axis_list, depth, height,
                                             width)
                fallback == policy = "fallback"
                notes == IF ~read THEN <<>>
                         ELSE IF g2.axis_list = 2 /\ policy # "read"
                         THEN <<AXIS2_MSG>>
                         ELSE IF policy = "warn" THEN <<AXIS1_MSG>>
                         ELSE <<>>
                \* up to the read of the plane
                g3 == IF ~read THEN g2
                      ELSE IF fallback
                      THEN [g2 EXCEPT !.current_slice = new_slice,
                                      !.axis_list = 0, !.main_slider = 0]
                      ELSE [g2 EXCEPT !.current_slice = new_slice]
                plane == IF fallback THEN <<file_path, key, 0, 0>>
                         ELSE <<file_path, key, g2.axis_list, d_pos>>
            IN  IF read /\ n.codec
                THEN [g |-> g3, exc |-> CODEC_ERROR, notes |-> notes]
                ELSE contrast(IF read THEN [g3 EXCEPT !.image = plane]
                              ELSE g3, notes)
        \* (depth, height, width) = hdf_obj[hdf_key].shape and the slider
        sized(g1, n) ==
            LET depth == n.shape[1]
                height == n.shape[2]
                width == n.shape[3]
                max_val == IF g1.axis_list = 2 THEN width - 1
                           ELSE IF g1.axis_list = 1 THEN height - 1
                           ELSE depth - 1
                d_pos == IF g1.main_slider > max_val THEN max_val
                         ELSE g1.main_slider
            IN  slice([g1 EXCEPT !.slider_max = max_val,
                                 !.main_slider = d_pos],
                      n, d_pos, depth, height, width)
    IN  IF Len(Node(file_path, key).shape) # 3
        THEN [g |-> enable_ui_elements_3d_data(g0), exc |-> UNPACK_ERROR,
              notes |-> <<>>]
        ELSE sized(enable_ui_elements_3d_data(g0), Node(file_path, key))

\* a variant of plot_rule that tests the width before the height
plot_rule_width_first(shape) ==
    IF Len(shape) = 2
    THEN IF shape[2] = 2 THEN "columns"
         ELSE IF shape[1] = 2 THEN "rows" ELSE "raster"
    ELSE "index"

\* plot mode: where x and y come from, or that the array is drawn as a
\* raster
plot_rule(shape) ==
    IF Len(shape) = 2
    THEN IF shape[1] = 2 THEN "rows"
         ELSE IF shape[2] = 2 THEN "columns" ELSE "raster"
    ELSE "index"

display_1d_2d_data(g0, file_path, key, disp_type) ==
    LET pairs(n) == plot_rule(n.shape)
        \* self.data_1d_2d = hdf_obj[hdf_key][:] and the table or the plot
        draw(g2, n) ==
            IF disp_type = "table"
            THEN [g |-> [g2 EXCEPT !.visible =
                                (@ \ {"main_plot"}) \cup {"main_table"}],
                  exc |-> IF TableRejected(n.shape) THEN TABLE_ERROR ELSE "",
                  notes |-> <<>>]
            ELSE [g |-> [g2 EXCEPT
                        !.visible = (@ \ {"main_table"}) \cup {"main_plot"},
                        !.main_plot =
                            IF pairs(n) = "raster"
                            THEN [kind |-> "raster",
                                  src |-> <<file_path, key>>,
                                  overlays |-> {}]
                            ELSE [kind |-> "plot",
                                  src |-> <<file_path, key, pairs(n)>>,
                                  overlays |-> {}]],
                  exc |-> "", notes |-> <<>>]
    IN  IF Node(file_path, key).codec
        THEN [g |-> enable_ui_elements_1d_2d_data(g0), exc |-> CODEC_ERROR,
              notes |-> <<>>]
        ELSE draw([enable_ui_elements_1d_2d_data(g0) EXCEPT
                        !.data_1d_2d = <<file_path, key>>],
                  Node(file_path, key))

----------------------------------------------------------------------------
(* GuiInteraction.show_data: one polling tick.  `up` is the state of the   *)
(* links' target when get_hdf_data runs and `up2` its state for the reads  *)
(* that follow in the same pass.                                           *)

NewState(g) ==
    <<g.file_path_display, g.hdf_key_display, g.main_slider,
      g.hdf_value_display, g.axis_list, g.cmap_list, g.display_type,
      g.marker_list, g.min_slider, g.max_slider, g.selected_tab,
      g.enable_zoom, g.enable_profile>>

ND_MSG == "Can't display {}-d array!"
RAW_PREFIX == "Error: "
HINT_MSG == "Dataset may be an external link and the target file is not accessible (moved, deleted, or corrupted) !!!"

\* a variant of state_changed that takes every sample for a new one
state_changed_always(g) == TRUE

\* if new_state != self.current_state
state_changed(g) == NewState(g) # g.current_state

\* the except clause: reset, then the two checks
fetch_failed(g, file_path1, hdf_key1, error, bad, up2, sofar) ==
    LET checks(link, comp, l1) ==
            LET l2 == [l1 EXCEPT !.reads = @ + 1,
                                 !.diag = <<"link", "codec">>]
            IN  IF link.exc # ""
                THEN [l1 EXCEPT !.escaped = TRUE]
                ELSE IF link.broken
                THEN [l1 EXCEPT !.notes = Append(@, link.msg)]
                ELSE IF comp.exc # ""
                THEN [l2 EXCEPT !.escaped = TRUE]
                ELSE IF comp.ext_compressed
                THEN [l2 EXCEPT !.notes = Append(@, comp.msg)]
                ELSE [l2 EXCEPT !.notes =
                            @ \o <<RAW_PREFIX \o error, HINT_MSG>>]
    IN  [g |-> reset(g, TRUE),
         last |-> checks(
                    check_external_link(file_path1, hdf_key1, bad, up2),
                    check_compressed_dataset(file_path1, hdf_key1, bad, up2),
                    [sofar EXCEPT !.raised = "caught", !.error = error,
                                  !.reads = @ + 1, !.diag = <<"link">>])]

show_data(g, bad, up, up2) ==
    LET file_path1 == g.file_path_display
        hdf_key1 == g.hdf_key_display
        \* after display_3d_data or display_1d_2d_data
        rendered(d, l2) ==
            IF d.exc # ""
            THEN fetch_failed(d.g, file_path1, hdf_key1, d.exc, bad, up2,
                              [l2 EXCEPT !.notes = d.notes])
            \* hdf_obj.close()
            ELSE [g |-> d.g, last |-> [l2 EXCEPT !.notes = d.notes,
                                                !.open = 0]]
        \* data_type == "array": hdf_obj = h5py.File(file_path1, "r")
        array(g2, dim, l2) ==
            IF dim = 3
            THEN rendered(display_3d_data(g2, file_path1, hdf_key1), l2)
            ELSE IF dim < 3
            THEN rendered(display_1d_2d_data(g2, file_path1, hdf_key1,
                                             g2.display_type), l2)
            ELSE [g |-> reset(clear_plot(g2), TRUE),
                  last |-> [l2 EXCEPT !.notes = <<ND_MSG>>, !.open = 0]]
        \* the try block, after get_hdf_data has returned r
        fetched(g1, r, l1) ==
            IF r.exc # ""
            THEN fetch_failed(g1, file_path1, hdf_key1, r.exc, bad, up2, l1)
            ELSE IF IsScalar(r.data_type)
            THEN [g |-> reset(clear_plot(
                            [g1 EXCEPT !.hdf_value_display = r.text]), TRUE),
                  last |-> [l1 EXCEPT !.route = "scalar"]]
            ELSE IF r.data_type = "array"
            \* hdf_obj[hdf_key1] follows the link again
            THEN IF r.dim <= 3 /\ Node(file_path1, hdf_key1).link /\ ~up2
                 THEN fetch_failed(
                        [g1 EXCEPT !.hdf_value_display =
                                        "Array shape: " \o r.text],
                        file_path1, hdf_key1, LINK_ERROR, bad, up2,
                        [l1 EXCEPT !.reads = 2, !.open = 1,
                                   !.route = IF r.dim = 3 THEN "3d"
                                             ELSE "1d2d"])
                 ELSE array([g1 EXCEPT !.hdf_value_display =
                                            "Array shape: " \o r.text],
                            r.dim,
                            [l1 EXCEPT !.reads = 2, !.open = 1,
                                       !.route = IF r.dim = 3 THEN "3d"
                                                 ELSE IF r.dim < 3
                                                 THEN "1d2d" ELSE "nd"])
            ELSE [g |-> reset(clear_plot(
                            [g1 EXCEPT !.hdf_value_display = r.data_type]),
                            TRUE),
                  last |-> [l1 EXCEPT !.route = "other"]]
        started(r) ==
            fetched([g EXCEPT !.current_state = NewState(g)], r,
                    [Idle("tick") EXCEPT
                        !.fetched = TRUE, !.reads = 1, !.error = r.swallowed,
                        !.raised = IF r.swallowed # "" THEN "swallowed"
                                   ELSE ""])
    IN  IF file_path1 # "" /\ hdf_key1 # ""
        THEN IF state_changed(g)
             THEN started(get_hdf_data(file_path1, hdf_key1, bad, up))
             ELSE [g |-> g, last |-> Idle("tick")]
        ELSE [g |-> reset(clear_plot([g EXCEPT !.hdf_value_display = ""]),
                          TRUE),
              last |-> Idle("tick")]

\* a tick would fetch: the sample differs from the stored state
WouldFetch(g) ==
    /\ g.file_path_display # ""
    /\ g.hdf_key_display # ""
    /\ NewState(g) # g.current_state

----------------------------------------------------------------------------
(* The other handlers *)

NoSelection == "<None>"

show_key(g, hdf_key, file_path) ==
    [g EXCEPT
        !.hdf_key_display = IF hdf_key # NoSelection THEN hdf_key ELSE @,
        !.hdf_value_display = IF hdf_key # NoSelection THEN @ ELSE "",
        !.file_path_display = file_path]

\* up to hdf_tree_to_dict; the card is added when the file reads
display_hdf_tree(g, file_path) ==
    [g EXCEPT !.file_path_display = file_path, !.hdf_key_display = ""]

close_file(g, file_path) ==
    IF g.current_state # None
    THEN IF file_path = g.current_state[1] THEN reset(g, FALSE) ELSE g
    ELSE reset(g, FALSE)

\* a variant of mouse_handler that leaves the earlier overlays in place
mouse_handler_keep(g, hit, profile) ==
    IF g.image # None /\ (g.enable_profile \/ g.enable_zoom) /\ hit
    THEN IF g.enable_profile
         THEN [g EXCEPT !.main_plot.overlays =
                    @ \cup {IF profile = "vertical" THEN "ver_line"
                            ELSE "hor_line"}]
         ELSE IF g.image_norm # None
         THEN [g EXCEPT !.main_plot.overlays = @ \cup {"draw_roi"}]
         ELSE g
    ELSE g

\* mouse_handler: a click on the main plot.  hit says that the click maps
\* to a pixel of self.image, profile is the value of profile_list.  An
\* overlay kept in self.draw_roi, self.ver_line or self.hor_line is hidden
\* first; one whose figure was cleared since is on no axes any more.
mouse_handler(g, hit, profile) ==
    IF g.image # None /\ (g.enable_profile \/ g.enable_zoom) /\ hit
    THEN IF g.enable_profile
         THEN [g EXCEPT !.main_plot.overlays =
                    {IF profile = "vertical" THEN "ver_line"
                     ELSE "hor_line"}]
         ELSE IF g.image_norm # None
         THEN [g EXCEPT !.main_plot.overlays = {"draw_roi"}]
         ELSE [g EXCEPT !.main_plot.overlays = {}]
    ELSE g

update_zoom_check_box(g) ==
    IF g.enable_zoom /\ g.enable_profile
    THEN [g EXCEPT !.enable_profile = FALSE] ELSE g

update_profile_check_box(g) ==
    IF g.enable_profile /\ g.enable_zoom
    THEN [g EXCEPT !.enable_zoom = FALSE] ELSE g

----------------------------------------------------------------------------
(* The state machine *)

\* the value of passes while the fetches are not being counted
Untracked == 0 - 1

Init ==
    /\ disk \in Disks
    /\ gui = init_gui
    /\ cards = [f \in Files |-> 0]
    /\ last = Idle("init")
    /\ burst = 0
    /\ passes = Untracked
    /\ job = NoJob

NumCards ==
    LET sum[F \in SUBSET Files] ==
            IF F = {} THEN 0
            ELSE LET f == CHOOSE x \in F : TRUE
                 IN  cards[f] + sum[F \ {f}]
    IN  sum[Files]

\* the controls other than the slice slider, the axis and the display type
\* that are off their initial value; the two contrast sliders count as one
Tweaks(g) ==
    Cardinality(
        {c \in {"cmap_list", "marker_list", "contrast",
                "selected_tab", "enable_zoom", "enable_profile"} :
            CASE c = "cmap_list" -> g.cmap_list # CMAP_LIST[1]
              [] c = "marker_list" -> g.marker_list # MARKER_LIST[1]
              [] c = "contrast" -> g.min_slider # 0
                                   \/ g.max_slider # CONTRAST_MAX
              [] c = "selected_tab" -> g.selected_tab # 1
              [] c = "enable_zoom" -> g.enable_zoom
              [] c = "enable_profile" -> g.enable_profile})

\* the positions the user drags the contrast sliders to
MinLevels == {0, 120}
MaxLevels == {100, CONTRAST_MAX}

Min(a, b) == IF a < b THEN a ELSE b

\* What the files are like when a tick reads them: the displayed file may
\* have become unreadable (moved, deleted, corrupted), and the target of an
\* external link may be reachable ("up"), unreachable ("down"), or go away
\* after get_hdf_data has classified the dataset ("vanishes").
LinkStates == {"up", "vanishes", "down"}

\* ui.timer(UPDATE_RATE, lambda: self.show_data())
Tick ==
    \E lost \in BOOLEAN, link \in LinkStates :
        /\ lost => WouldFetch(gui)
        /\ link # "up" =>
                /\ WouldFetch(gui)
                /\ ~lost
                /\ Node(gui.file_path_display, gui.hdf_key_display).link
        /\ LET pass(r) ==
                    /\ gui' = r.g
                    /\ last' = [r.last EXCEPT !.lost = lost, !.link = link]
                    /\ passes' = IF lost \/ link # "up" THEN Untracked
                                 ELSE IF r.last.fetched /\ passes # Untracked
                                 THEN Min(passes + 1, MaxCount) ELSE passes
           IN  pass(show_data(gui,
                              IF lost THEN {gui.file_path_display} ELSE {},
                              link # "down", link = "up"))
        /\ burst' = 0
        /\ UNCHANGED <<disk, cards, job>>

\* a handler the user triggers, leaving the instance as g
Input(g) ==
    \* the dialogs are modal: no control of the page is reached under one
    /\ job = NoJob
    /\ burst < MaxBurst
    /\ Tweaks(g) <= MaxTweaks
    /\ burst' = burst + 1
    /\ gui' = g
    /\ last' = Idle("input")
    /\ passes' = IF WouldFetch(gui) THEN Untracked ELSE 0
    /\ UNCHANGED <<disk, job>>

\* pick_file with a file chosen: display_hdf_tree adds a card if
\* hdf_tree_to_dict can read the file
PickFile ==
    \E f \in Files, readable \in BOOLEAN :
        /\ NumCards < MaxCards
        /\ Input(display_hdf_tree(gui, f))
        /\ cards' = IF readable THEN [cards EXCEPT ![f] = @ + 1] ELSE cards

CloseFile ==
    \E f \in Files :
        /\ cards[f] > 0
        /\ Input(close_file(gui, f))
        /\ cards' = [cards EXCEPT ![f] = @ - 1]

ShowKey ==
    \E f \in Files :
        \E k \in TreeKeys(f) \cup {NoSelection} :
            /\ cards[f] > 0
            /\ Input(show_key(gui, k, f))
            /\ UNCHANGED cards

SetSlider ==
    \E v \in 0..Min(gui.slider_max, MaxPos) :
        /\ "main_slider" \in gui.enabled
        /\ v # gui.main_slider
        /\ Input([gui EXCEPT !.main_slider = v])
        /\ UNCHANGED cards

SetAxis ==
    \E i \in 1..Len(AXIS_LIST) :
        /\ "axis_list" \in gui.enabled
        /\ AXIS_LIST[i] # gui.axis_list
        /\ Input([gui EXCEPT !.axis_list = AXIS_LIST[i]])
        /\ UNCHANGED cards

SetCmap ==
    \E i \in 1..Min(MaxChoice, Len(CMAP_LIST)) :
        /\ "cmap_list" \in gui.enabled
        /\ CMAP_LIST[i] # gui.cmap_list
        /\ Input([gui EXCEPT !.cmap_list = CMAP_LIST[i]])
        /\ UNCHANGED cards

SetDisplayType ==
    \E i \in 1..Len(DISPLAY_TYPE) :
        /\ "display_type" \in gui.enabled
        /\ DISPLAY_TYPE[i] # gui.display_type
        /\ Input([gui EXCEPT !.display_type = DISPLAY_TYPE[i]])
        /\ UNCHANGED cards

SetMarker ==
    \E i \in 1..Min(MaxChoice, Len(MARKER_LIST)) :
        /\ "marker_list" \in gui.enabled
        /\ MARKER_LIST[i] # gui.marker_list
        /\ Input([gui EXCEPT !.marker_list = MARKER_LIST[i]])
        /\ UNCHANGED cards

SetMin ==
    \E v \in MinLevels :
        /\ "min_slider" \in gui.enabled
        /\ v # gui.min_slider
        /\ Input([gui EXCEPT !.min_slider = v])
        /\ UNCHANGED cards

SetMax ==
    \E v \in MaxLevels :
        /\ "max_slider" \in gui.enabled
        /\ v # gui.max_slider
        /\ Input([gui EXCEPT !.max_slider = v])
        /\ UNCHANGED cards

ResetMinMax ==
    /\ Input(reset_min_max(gui))
    /\ UNCHANGED cards

SelectTab ==
    \E t \in {1, 2} :
        /\ t # gui.selected_tab
        /\ Input([gui EXCEPT !.selected_tab = t])
        /\ UNCHANGED cards

ClickZoom ==
    /\ "enable_zoom" \in gui.enabled
    /\ Input(update_zoom_check_box(
                [gui EXCEPT !.enable_zoom = ~gui.enable_zoom]))
    /\ UNCHANGED cards

ClickProfile ==
    /\ "enable_profile" \in gui.enabled
    /\ Input(update_profile_check_box(
                [gui EXCEPT !.enable_profile = ~gui.enable_profile]))
    /\ UNCHANGED cards

ClickImage ==
    \E hit \in BOOLEAN, profile \in {"vertical", "horizontal"} :
        /\ "main_plot" \in gui.visible
        /\ Input(mouse_handler(gui, hit, profile))
        /\ UNCHANGED cards

Next ==
    \/ ClickImage
    \/ Tick
    \/ PickFile
    \/ CloseFile
    \/ ShowKey
    \/ SetSlider
    \/ SetAxis
    \/ SetCmap
    \/ SetDisplayType
    \/ SetMarker
    \/ SetMin
    \/ SetMax
    \/ ResetMinMax
    \/ SelectTab
    \/ ClickZoom
    \/ ClickProfile

Spec == Init /\ [][Next]_vars

----------------------------------------------------------------------------
(* Functions modelled on their own: a call draws its arguments from small  *)
(* sets and job records the arguments and the result.  The viewer's state  *)
(* stays as constructed.                                                   *)

\* cells of the slices that are normalized
MaxPixels == 2

\* the values of a slice's cells: within and beyond the range of a byte
PixelValues == {0, 5, 9, 300}

\* the positions of the contrast sliders that are tried
MinSettings == {0, 99, 120, 254}
MaxSettings == {1, 100, 120, CONTRAST_MAX}

SeqMin(s) == CHOOSE v \in {s[i] : i \in DOMAIN s} :
                \A w \in {s[i] : i \in DOMAIN s} : v <= w

SeqMax(s) == CHOOSE v \in {s[i] : i \in DOMAIN s} :
                \A w \in {s[i] : i \in DOMAIN s} : v >= w

\* a variant of rescale_and_clip that does not clip
rescale_no_clip(image, min_val, max_val) ==
    LET scaled(nmin, nmax) ==
            [i \in DOMAIN image |->
                (CONTRAST_MAX * (image[i] - nmin)) \div (nmax - nmin)]
    IN  IF SeqMax(image) # SeqMin(image)
        THEN scaled(SeqMin(image), SeqMax(image))
        ELSE [i \in DOMAIN image |-> 0]

\* nmin, nmax = np.min(image), np.max(image); np.uint8(255.0 * (image - nmin)
\* / (nmax - nmin)) clipped to [min_val, max_val], or np.zeros(image.shape)
rescale_and_clip(image, min_val, max_val) ==
    LET scaled(nmin, nmax) ==
            [i \in DOMAIN image |->
                Clip((CONTRAST_MAX * (image[i] - nmin)) \div (nmax - nmin),
                     min_val, max_val)]
    IN  IF SeqMax(image) # SeqMin(image)
        THEN scaled(SeqMin(image), SeqMax(image))
        ELSE [i \in DOMAIN image |-> 0]

\* the contrast part of display_3d_data on a slice with the sliders at
\* (min_slider, max_slider): the sliders and self.image_norm afterwards
contrast_normalize(image, min_slider, max_slider) ==
    LET stretch == min_slider > 0 \/ max_slider < CONTRAST_MAX
        norm(min_val) ==
            [min_slider |-> min_val, max_slider |-> max_slider,
             image_norm |-> IF stretch
                            THEN rescale_and_clip(image, min_val, max_slider)
                            \* np.copy(self.image)
                            ELSE image]
    IN  norm(IF stretch THEN clamp_min(min_slider, max_slider)
             ELSE min_slider)

\* largest extent of the arrays that are plotted
MaxExtent == 3

\* the values of their cells
CellValues == {0, 1}

\* the 1-D and 2-D arrays: a shape and the cells, by index or by
\* <<row, column>>, counted from 0
Arrays1d ==
    UNION {[shape : {<<n>>}, cells : [0..(n - 1) -> CellValues]] :
                n \in 1..MaxExtent}

Arrays2d ==
    UNION {[shape : {<<h, w>>},
            cells : [(0..(h - 1)) \X (0..(w - 1)) -> CellValues]] :
                h \in 1..MaxExtent, w \in 1..MaxExtent}

\* plot mode of display_1d_2d_data: the x and y handed to ax.plot (None
\* when no line plot is made) and whether ax.imshow draws the array
plot_xy(data) ==
    LET rule == plot_rule(data.shape)
        height == data.shape[1]
        width == data.shape[2]
    IN  CASE rule = "rows" ->
                [x |-> [j \in 0..(width - 1) |-> data.cells[<<0, j>>]],
                 y |-> [j \in 0..(width - 1) |-> data.cells[<<1, j>>]],
                 img |-> FALSE]
          [] rule = "columns" ->
                [x |-> [i \in 0..(height - 1) |-> data.cells[<<i, 0>>]],
                 y |-> [i \in 0..(height - 1) |-> data.cells[<<i, 1>>]],
                 img |-> FALSE]
          [] rule = "raster" -> [x |-> None, y |-> None, img |-> TRUE]
          [] rule = "index" ->
                [x |-> [i \in 0..(height - 1) |-> i],
                 y |-> data.cells, img |-> FALSE]

\* extents of the arrays that are too large to enumerate cell by cell; such
\* an array is np.zeros(shape) and is held by its shape alone
BigExtents == {1, 600, TABLE_LIMIT, TABLE_LIMIT + 1, 2 * TABLE_LIMIT}

BigLengths == {TABLE_LIMIT * TABLE_LIMIT, TABLE_LIMIT * TABLE_LIMIT + 1}

ZerosArrays ==
    [shape : {<<n>> : n \in BigLengths}
                \cup {<<h, w>> : h \in BigExtents, w \in BigExtents},
     fill : {0}]

\* data[i][j] of an array brought to two dimensions
Cell2d(data, i, j) ==
    IF "fill" \in DOMAIN data THEN data.fill
    ELSE IF Len(data.shape) = 1 THEN data.cells[i] ELSE data.cells[<<i, j>>]

\* format_table_from_array: rows and columns, both None when the array is
\* refused.  Row i is fm_data[i], the index followed by the values, and
\* column j is the name of columns[j].  The table of an array of zeros is
\* held by its height and width.
format_table_from_array(data) ==
    LET h0 == data.shape[1]
        w0 == IF Len(data.shape) = 1 THEN 1 ELSE data.shape[2]
        transposed == w0 > h0
        height == IF transposed THEN w0 ELSE h0
        width == IF transposed THEN h0 ELSE w0
        at(i, j) == IF transposed THEN Cell2d(data, j, i)
                    ELSE Cell2d(data, i, j)
    IN  IF TableRejected(data.shape)
        THEN [rows |-> None, columns |-> None]
        ELSE IF "fill" \in DOMAIN data
        THEN [rows |-> [height |-> height, width |-> width + 1,
                        fill |-> data.fill],
              columns |-> [width |-> width + 1]]
        ELSE [rows |-> [i \in 0..(height - 1) |->
                            [j \in 0..width |->
                                IF j = 0 THEN i ELSE at(i, j - 1)]],
              columns |-> [j \in 0..width |->
                                IF j = 0 THEN "Index"
                                ELSE "Column " \o ToString(j - 1)]]

\* save_table writes a 2-D array of fewer cells than this
SAVE_LIMIT == 4000000

LIMIT_MSG == "Array has more than 4,000,000 elements. Operation not performed."

DIMS_MSG == "Data must be a 1D or 2D array"

WRITE_ERROR == "[Errno 13] Permission denied"

EXT_IMAGE_MSG == "Please use .tif, .jpg, .png, or .csv as file extension!"

EXT_DATA_MSG == "Please use .csv as file extension!"

OVERWRITTEN_MSG == "File is overwritten"

SAVED_MSG == "File is saved"

\* what the save dialogs can return; "" is a dialog closed without a name
SavePaths == {"out.csv", "out.tif", "out.jpg", "out.png", "out.txt", "out"}

\* os.path.splitext(file_path)[-1]
splitext(file_path) ==
    CASE file_path = "out.csv" -> ".csv"
      [] file_path = "out.tif" -> ".tif"
      [] file_path = "out.jpg" -> ".jpg"
      [] file_path = "out.png" -> ".png"
      [] file_path = "out.txt" -> ".txt"
      [] OTHER -> ""

\* file_path + ".csv" for the one path without an extension
with_csv(file_path) == IF file_path = "out" THEN "out.csv" ELSE file_path

\* a file of the disk is absent, holds what it held before ("old"), is
\* empty, or holds the rows or the image that were written
FileSystems == [SavePaths -> {"absent"}] \cup [SavePaths -> {"old"}]

\* shapes of the arrays that are saved
SaveShapes ==
    {<<3>>, <<SAVE_LIMIT + 1>>, <<2, 3>>, <<1, SAVE_LIMIT - 1>>,
     <<2000, 2000>>, <<1, SAVE_LIMIT + 1>>, <<2, 2, 2>>}

\* utilities.save_table: the disk afterwards and the error returned (""
\* for None).  open(file_path, "w") comes before the tests on the data.
save_table(fs, file_path, shape, openable) ==
    LET opened == [fs EXCEPT ![file_path] = "empty"]
        written == [fs EXCEPT ![file_path] = "rows"]
    IN  IF ~openable THEN [fs |-> fs, error |-> WRITE_ERROR]
        ELSE IF Len(shape) = 1 THEN [fs |-> written, error |-> ""]
        ELSE IF Len(shape) = 2
        THEN IF shape[1] * shape[2] < SAVE_LIMIT
             THEN [fs |-> written, error |-> ""]
             ELSE [fs |-> opened, error |-> LIMIT_MSG]
        ELSE [fs |-> opened, error |-> DIMS_MSG]

\* utilities.save_image: image.save(file_path) inside the try
util_save_image(fs, file_path, openable) ==
    IF ~openable THEN [fs |-> fs, error |-> WRITE_ERROR]
    ELSE [fs |-> [fs EXCEPT ![file_path] = "image"], error |-> ""]

\* the notices after util.save_table or util.save_image returned
save_notices(saved, check) ==
    IF saved.error # "" THEN <<saved.error>>
    ELSE IF check THEN <<OVERWRITTEN_MSG>> ELSE <<SAVED_MSG>>

\* GuiInteraction.save_image with the answer of the dialog: the disk and
\* the notices
save_image(fs, file_path, image, openable) ==
    LET file_ext == splitext(file_path)
        saved == IF file_ext = ".csv"
                 THEN save_table(fs, file_path, image, openable)
                 ELSE util_save_image(fs, file_path, openable)
    IN  IF file_path # "" /\ image # None
        THEN IF file_ext \notin {".tif", ".jpg", ".png", ".csv"}
             THEN [fs |-> fs, notes |-> <<EXT_IMAGE_MSG>>]
             ELSE [fs |-> saved.fs,
                   notes |-> save_notices(saved, fs[file_path] # "absent")]
        ELSE [fs |-> fs, notes |-> <<>>]

\* GuiInteraction.save_data with the answer of the dialog
save_data(fs, file_path0, data_1d_2d, openable) ==
    LET file_path == with_csv(file_path0)
        file_ext == splitext(file_path)
        saved == save_table(fs, file_path, data_1d_2d, openable)
    IN  IF file_path0 # "" /\ data_1d_2d # None
        THEN IF file_ext # ".csv"
             THEN [fs |-> fs, notes |-> <<EXT_DATA_MSG>>]
             ELSE [fs |-> saved.fs,
                   notes |-> save_notices(saved, fs[file_path] # "absent")]
        ELSE [fs |-> fs, notes |-> <<>>]

\* json.dump of a record of one key, as the tokens of the text
json_dump(data) ==
    LET key == CHOOSE k \in DOMAIN data : TRUE
    IN  <<"{", key, ":", data[key], "}">>

\* a variant of json_load that takes the value for the key
json_load_swapped(text) == [k \in {text[4]} |-> text[2]]

\* json.load of such a text
json_load(text) == [k \in {text[2]} |-> text[4]]

\* the config file: None when there is none, else its text
Configs ==
    {None, json_dump([last_folder |-> "/data"]),
     json_dump([theme |-> "dark"])}

\* picks that are followed one after the other
MaxPicks == 2

\* os.path.dirname(file_path)
dirname(file_path) == "/dir/of/" \o file_path

\* self.last_folder before the dialog of pick_file opens
load_last_folder(config) ==
    IF config = None THEN ""
    ELSE IF "last_folder" \in DOMAIN json_load(config)
    THEN json_load(config).last_folder ELSE ""

\* the folder the file picker starts in
picker_directory(last_folder, exists) ==
    IF last_folder = "" \/ ~exists THEN "~" ELSE last_folder

\* a variant of pick_file that does not test the answer of the dialog
pick_file_untested(g, cnt, config, file_path, readable) ==
    [gui |-> display_hdf_tree(g, file_path),
     cards |-> IF readable /\ file_path \in DOMAIN cnt
               THEN [cnt EXCEPT ![file_path] = @ + 1] ELSE cnt,
     config |-> json_dump([last_folder |-> dirname(file_path)]),
     last_folder |-> dirname(file_path)]

\* pick_file with the answer of the dialog, "" when it was closed without
\* a file: the instance, the cards of the tree container, the config file
\* and self.last_folder afterwards
pick_file(g, cnt, config, file_path, readable) ==
    IF file_path # ""
    THEN [gui |-> display_hdf_tree(g, file_path),
          cards |-> IF readable THEN [cnt EXCEPT ![file_path] = @ + 1]
                    ELSE cnt,
          config |-> json_dump([last_folder |-> dirname(file_path)]),
          last_folder |-> dirname(file_path)]
    ELSE [gui |-> g, cards |-> cnt, config |-> config,
          last_folder |-> load_last_folder(config)]

INPUT_EXT == {"hdf", "nxs", "h5", "hdf5"}

\* names of the files of the folder the picker shows, as the parts that
\* the dots separate
FileNames ==
    {<<"scan", "h5">>, <<"scan", "hdf">>, <<"scan", "nxs">>,
     <<"scan", "hdf5">>, <<"scan", "H5">>, <<"scan", "txt">>,
     <<"scan", "h5", "bak">>, <<"scan", "tar", "h5">>, <<"scan">>}

\* FilePicker.check_extension: filename.split(".")[-1].lower() is allowed
check_extension(filename) ==
    LET last_part == filename[Len(filename)]
        lower == IF last_part = "H5" THEN "h5" ELSE last_part
    IN  lower \in INPUT_EXT

\* what the picker submits for a file of the folder, None if nothing:
\* update_grid lists the file if check_extension accepts it,
\* handle_double_click submits a listed file, handle_ok submits the
\* selected row if Path(...).suffix is one of its three extensions
picker_submit(route, filename) ==
    LET suffix == IF Len(filename) = 1 THEN ""
                  ELSE "." \o filename[Len(filename)]
    IN  IF ~check_extension(filename) THEN None
        ELSE IF route = "double_click" THEN filename
        ELSE IF suffix \in {".h5", ".hdf", ".nxs"} THEN filename
        ELSE None

\* --port of the command line and its default
DEFAULT_PORT == 8180

Ports == {DEFAULT_PORT, DEFAULT_PORT + 1}

PORT_MSG == "!!! Port is already in use. Please specify a different port using --port !!!"

RUN_MSG == "An error occurred"

\* s.connect_ex(("localhost", port)): 0 when a listener of localhost
\* accepts the connection, else the errno (ECONNREFUSED)
connect_ex(port, listening) == IF port \in listening THEN 0 ELSE 111

\* a variant of check_port that reports the ports nobody listens on
check_port_refused(port, listening) == connect_ex(port, listening) # 0

check_port(port, listening) == connect_ex(port, listening) = 0

\* main(): what it prints, the exit status and, in order, what it sets up.
\* GuiInteraction and its timer are made when a browser asks for the page
\* while ui.run serves; ui.run ends by an exception or by SIGINT, and
\* either way the process exits with 0.
main(port, listening, visited, run_fails) ==
    IF check_port(port, listening)
    THEN [printed |-> <<PORT_MSG>>, status |-> 1, events |-> <<>>]
    ELSE [printed |-> IF run_fails THEN <<RUN_MSG>> ELSE <<>>,
          status |-> 0,
          events |-> <<"signal", "page", "on_shutdown", "on_startup",
                       "ui.run">>
                     \o (IF visited /\ ~run_fails
                         THEN <<"GuiInteraction", "timer">> ELSE <<>>)]

\* largest height and width of the images a region is cut from
MaxSide == 9

\* the choices of zoom_list: "2x", "4x", "8x" as int(val.replace("x", ""))
ZOOMS == {2, 4, 8}

\* len(range(n)[start:stop]): a negative bound counts from the end, and
\* both are brought into 0..n
slice_len(n, start, stop) ==
    LET bound(i) == IF i < 0 THEN (IF i + n < 0 THEN 0 ELSE i + n)
                    ELSE IF i > n THEN n ELSE i
    IN  IF bound(stop) > bound(start) THEN bound(stop) - bound(start) ELSE 0

\* get_image_roi(x, y, mat, zoom) for mat of the given shape: the shape of
\* roi, x_start, y_start and size
get_image_roi(x, y, shape, zoom) ==
    LET height == shape[1]
        width == shape[2]
        min_size == IF height < width THEN height ELSE width
        \* int(0.5 * min_size // zoom)
        rad == Clip(min_size \div (2 * zoom), 1, (min_size \div 2) - 1)
        size == 2 * rad
        x_start == Clip(x - rad, 0, width - size)
        y_start == Clip(y - rad, 0, height - size)
        x_stop == x_start + size
        y_stop == y_start + size
    IN  [roi |-> <<slice_len(height, y_start, y_stop),
                   slice_len(width, x_start, x_stop)>>,
         x_start |-> x_start, y_start |-> y_start, size |-> size]

\* The two bindings of the name broh5_app: the local variable of main(),
\* assigned None, and the module global.
MainScope == [local |-> None, global |-> None]

\* main_page declares "global broh5_app": the instance it makes is bound
\* to the module global, and main()'s local variable keeps its value
main_page(scope) == [scope EXCEPT !.global = [class |-> "GuiInteraction"]]

\* shutdown() cancels the timer of the instance it is called on
handle_shutdown(main_app, timer) ==
    IF main_app # None
    THEN [called |-> TRUE, timer |-> "cancelled"]
    ELSE [called |-> FALSE, timer |-> timer]

\* lambda: handle_shutdown(broh5_app), made in main(): the name is the
\* local variable of main(), read when the application shuts down
on_shutdown(scope, timer) == handle_shutdown(scope.local, timer)

\* the tools run on a fresh instance or on one that shows a node of an
\* open file
ToolInit ==
    /\ disk = "plain"
    /\ \/ gui = init_gui /\ cards = [f \in Files |-> 0]
       \/ \E f \in Files :
            \E k \in TreeKeys(f) :
                /\ gui = show_key(display_hdf_tree(init_gui, f), k, f)
                /\ cards = [x \in Files |-> IF x = f THEN 1 ELSE 0]
    /\ last = Idle("init")
    /\ burst = 0
    /\ passes = Untracked
    /\ job = NoJob

Normalize ==
    /\ job = NoJob
    /\ \E image \in [1..MaxPixels -> PixelValues],
          min_slider \in MinSettings, max_slider \in MaxSettings :
            job' = [op |-> "normalize", image |-> image,
                    min_slider |-> min_slider, max_slider |-> max_slider,
                    out |-> contrast_normalize(image, min_slider, max_slider)]
    /\ UNCHANGED <<disk, gui, cards, last, burst, passes>>

Plot ==
    /\ job = NoJob
    /\ \E data \in Arrays1d \cup Arrays2d :
            job' = [op |-> "plot", data |-> data, out |-> plot_xy(data)]
    /\ UNCHANGED <<disk, gui, cards, last, burst, passes>>

FormatTable ==
    /\ job = NoJob
    /\ \E data \in Arrays1d \cup Arrays2d \cup ZerosArrays :
            job' = [op |-> "table", data |-> data,
                    out |-> format_table_from_array(data)]
    /\ UNCHANGED <<disk, gui, cards, last, burst, passes>>

SaveTable ==
    /\ job = NoJob
    /\ \E fs \in FileSystems, file_path \in SavePaths,
          shape \in SaveShapes, openable \in BOOLEAN :
            job' = [op |-> "save_table", fs |-> fs, file_path |-> file_path,
                    shape |-> shape, openable |-> openable,
                    out |-> save_table(fs, file_path, shape, openable)]
    /\ UNCHANGED <<disk, gui, cards, last, burst, passes>>

SaveImage ==
    /\ job = NoJob
    /\ \E fs \in FileSystems, file_path \in SavePaths \cup {""},
          image \in {s \in SaveShapes : Len(s) = 2} \cup {None},
          openable \in BOOLEAN :
            job' = [op |-> "save_image", fs |-> fs, file_path |-> file_path,
                    shape |-> image, openable |-> openable,
                    out |-> save_image(fs, file_path, image, openable)]
    /\ UNCHANGED <<disk, gui, cards, last, burst, passes>>

SaveData ==
    /\ job = NoJob
    /\ \E fs \in FileSystems, file_path \in SavePaths \cup {""},
          data_1d_2d \in {s \in SaveShapes : Len(s) <= 2} \cup {None},
          openable \in BOOLEAN :
            job' = [op |-> "save_data", fs |-> fs, file_path |-> file_path,
                    shape |-> data_1d_2d, openable |-> openable,
                    out |-> save_data(fs, file_path, data_1d_2d, openable)]
    /\ UNCHANGED <<disk, gui, cards, last, burst, passes>>

\* pick_file, and a second pick_file that finds the config file the first
\* one left
PickDialog ==
    /\ job = NoJob \/ (job.op = "pick_file" /\ job.round < MaxPicks)
    /\ \E file_path \in Files \cup {""}, readable \in BOOLEAN,
          exists \in BOOLEAN,
          config \in IF job = NoJob THEN Configs ELSE {job.out.config} :
            LET picked == pick_file(gui, cards, config, file_path, readable)
                loaded == load_last_folder(config)
            IN  /\ gui' = picked.gui
                /\ cards' = picked.cards
                /\ job' = [op |-> "pick_file", file_path |-> file_path,
                           gui |-> gui, cards |-> cards, config |-> config,
                           round |-> IF job = NoJob THEN 1 ELSE job.round + 1,
                           earlier |-> IF job = NoJob THEN ""
                                       ELSE job.file_path,
                           exists |-> exists,
                           out |-> [config |-> picked.config,
                                    last_folder |-> picked.last_folder,
                                    loaded |-> loaded,
                                    start |-> picker_directory(loaded,
                                                               exists)]]
    /\ UNCHANGED <<disk, last, burst, passes>>

PickRow ==
    /\ job = NoJob
    /\ \E filename \in FileNames, route \in {"double_click", "ok"} :
            job' = [op |-> "pick_row", filename |-> filename,
                    route |-> route, out |-> picker_submit(route, filename)]
    /\ UNCHANGED <<disk, gui, cards, last, burst, passes>>

Main ==
    /\ job = NoJob
    /\ \E port \in Ports, listening \in SUBSET Ports,
          visited \in BOOLEAN, run_fails \in BOOLEAN :
            job' = [op |-> "main", port |-> port, listening |-> listening,
                    out |-> main(port, listening, visited, run_fails)]
    /\ UNCHANGED <<disk, gui, cards, last, burst, passes>>

\* the application shuts down after ui.run has served, the page opened by
\* a browser or not
Shutdown ==
    /\ job = NoJob
    /\ \E visited \in BOOLEAN :
            LET scope == IF visited THEN main_page(MainScope) ELSE MainScope
                timer == IF visited THEN "active" ELSE "none"
            IN  job' = [op |-> "shutdown", visited |-> visited,
                        scope |-> scope, out |-> on_shutdown(scope, timer)]
    /\ UNCHANGED <<disk, gui, cards, last, burst, passes>>

\* a click inside the image with zoom enabled: mouse_handler cuts the
\* region around the clicked pixel
GetImageRoi ==
    /\ job = NoJob
    /\ \E height \in 1..MaxSide, width \in 1..MaxSide, zoom \in ZOOMS :
            \E x \in 0..(width - 1), y \in 0..(height - 1) :
                job' = [op |-> "get_image_roi", x |-> x, y |-> y,
                        shape |-> <<height, width>>, zoom |-> zoom,
                        out |-> get_image_roi(x, y, <<height, width>>, zoom)]
    /\ UNCHANGED <<disk, gui, cards, last, burst, passes>>

ToolNext ==
    \/ GetImageRoi
    \/ Shutdown
    \/ PickRow
    \/ Main
    \/ PickDialog
    \/ Normalize
    \/ Plot
    \/ FormatTable
    \/ SaveTable
    \/ SaveImage
    \/ SaveData

ToolSpec == ToolInit /\ [][ToolNext]_vars

----------------------------------------------------------------------------
(* The dialogs.  pick_file, save_image and save_data await a dialog: the    *)
(* handler stops at the await, the timer goes on, and the handler resumes   *)
(* with the answer.  job holds the open dialog and then its outcome; one    *)
(* dialog is followed per behaviour.                                        *)

\* a variant of resumed_array: the array held when the dialog opened
captured_array(at_open, at_answer) == at_open

\* the array a save handler tests and exports: self.image or
\* self.data_1d_2d as read after the await
resumed_array(at_open, at_answer) == at_answer

\* the shape of a held plane <<file, key, axis, index>> or of a held 1-D or
\* 2-D array <<file, key>>
held_shape(a) ==
    LET shape == Node(a[1], a[2]).shape
    IN  IF Len(a) = 4
        THEN SelectSeq([i \in 1..3 |-> IF i = a[3] + 1 THEN 0 ELSE shape[i]],
                       LAMBDA x : x # 0)
        ELSE shape

DialogInit ==
    /\ disk = "plain"
    /\ gui = init_gui
    /\ cards = [f \in Files |-> 0]
    /\ last = Idle("init")
    /\ burst = 0
    /\ passes = Untracked
    /\ job = NoJob

\* the click on 'Select file', 'Save image' or 'Save data', up to the await
OpenDialog ==
    \E kind \in {"pick_file", "save_image", "save_data"} :
        /\ job = NoJob
        /\ kind = "save_image" => "save_image_button" \in gui.enabled
        /\ kind = "save_data" => "save_data_button" \in gui.enabled
        /\ job' = [op |-> "dialog", kind |-> kind,
                   held |-> CASE kind = "save_image" -> gui.image
                              [] kind = "save_data" -> gui.data_1d_2d
                              [] OTHER -> None]
        /\ UNCHANGED <<disk, gui, cards, last, burst, passes>>

\* the dialog is answered, "" for closed without a selection, and the
\* handler runs to its end
CloseDialog ==
    /\ job.op = "dialog"
    /\ \/ /\ job.kind = "pick_file"
          /\ \E file_path \in Files \cup {""} :
                LET picked == pick_file(gui, cards, None, file_path, TRUE)
                IN  /\ gui' = picked.gui
                    /\ cards' = picked.cards
                    /\ job' = [op |-> "closed", kind |-> job.kind,
                               held |-> None, current |-> None,
                               file_path |-> file_path, exported |-> None,
                               notes |-> <<>>]
          /\ last' = Idle("input")
          /\ passes' = Untracked
          /\ UNCHANGED <<disk, burst>>
       \/ /\ job.kind # "pick_file"
          /\ \E file_path \in {"", "out.csv", "out.tif"} :
                LET current == IF job.kind = "save_image" THEN gui.image
                               ELSE gui.data_1d_2d
                    array == resumed_array(job.held, current)
                    fs == [p \in SavePaths |-> "absent"]
                    shape == IF array = None THEN None ELSE held_shape(array)
                    out == IF job.kind = "save_image"
                           THEN save_image(fs, file_path, shape, TRUE)
                           ELSE save_data(fs, file_path, shape, TRUE)
                IN  job' = [op |-> "closed", kind |-> job.kind,
                            held |-> job.held, current |-> current,
                            file_path |-> file_path,
                            exported |-> IF out.fs # fs THEN array ELSE None,
                            notes |-> out.notes]
          /\ UNCHANGED <<disk, gui, cards, last, burst, passes>>

DialogNext ==
    \/ Tick
    \/ PickFile
    \/ ShowKey
    \/ SetDisplayType
    \/ OpenDialog
    \/ CloseDialog

DialogSpec == DialogInit /\ [][DialogNext]_vars

----------------------------------------------------------------------------
(* The viewer left alone.  From Stop on the user makes no input and the     *)
(* files stay as they are; the timer fires again and again.                 *)

Stop ==
    /\ job = NoJob
    /\ job' = [op |-> "quiet"]
    /\ UNCHANGED <<disk, gui, cards, last, burst, passes>>

\* a tick that finds the files as they were
QuietTick ==
    /\ job.op = "quiet"
    /\ Tick
    /\ ~last'.lost
    /\ last'.link = "up"

LiveNext ==
    \/ job = NoJob /\ Next
    \/ Stop
    \/ QuietTick

\* no fetch is pending for the viewer left alone
Settled == job.op = "quiet" => ~WouldFetch(gui)

\* a step of the viewer left alone: a quiet tick that changes something
QuietStep == job.op = "quiet" /\ job'.op = "quiet"

\* WF_vars(QuietTick), written out: quiet ticks that change the state keep
\* being taken unless, again and again, a quiet tick would change nothing,
\* which it does only in a Settled state
LiveSpec ==
    Init /\ [][LiveNext]_vars /\ ([]<>Settled \/ []<><<QuietStep>>_vars)

\* C27: a click on "Close file" of a file leaves the file path display
\* holding another text than that file's path, whatever handlers and ticks
\* came before it.
C27_ClosedFileGone ==
    [][\A f \in Files :
            cards'[f] < cards[f] => gui'.file_path_display # f]_vars

\* C28: when the application shuts down after the page has been opened,
\* handle_shutdown calls shutdown() on the GuiInteraction instance that
\* main_page made, and the polling timer is cancelled.
C28_ShutdownCancelsTimer ==
    (job.op = "shutdown" /\ job.visited)
        => /\ job.out.called
           /\ job.out.timer = "cancelled"

----------------------------------------------------------------------------
(* The claims *)

\* the last handler was a polling tick
Ticked == last.op = "tick"

\* the (file, key) on display
ShownNode == Node(gui.file_path_display, gui.hdf_key_display)

\* C1: a tick that finds the sampled tuple equal to the stored state reads
\* no file: no fetch, no open, no diagnostic.
C1_UnchangedReadsNothing ==
    [][(Tick /\ NewState(gui) = gui.current_state)
        => (last'.reads = 0 /\ ~last'.fetched /\ last'.diag = <<>>
            /\ gui' = gui)]_vars

\* C1 witness: a tick has found a displayed 3-D slice unchanged and has
\* read nothing.
C1_Witness ==
    /\ Ticked
    /\ ~last.fetched
    /\ last.reads = 0
    /\ gui.hdf_key_display # ""
    /\ gui.image # None
    /\ gui.current_state = NewState(gui)

\* C2: after a pass has rendered a 3-D dataset, self.image is the plane at
\* the current (axis, index) of the (file, key) on display.
C2_ImageIsCurrentPlane ==
    (Ticked /\ last.fetched /\ last.route = "3d" /\ last.raised = "")
        => gui.image = <<gui.file_path_display, gui.hdf_key_display,
                         gui.axis_list, gui.main_slider>>

\* C3: after one input made while no fetch was pending, and no further
\* input or change of the files, at most one tick performs a pass.
C3_OnePassPerChange == passes <= 1

\* C4: after a pass whose fetch failed and was diagnosed, the path and key
\* texts are what the pass sampled, self.image and self.data_1d_2d are
\* null, every image and plot control is disabled, and the main canvas
\* shows no earlier image or plot.
C4_FailureLeavesNothingStale ==
    (Ticked /\ last.raised = "caught" /\ ~last.escaped)
        => /\ gui.file_path_display = gui.current_state[1]
           /\ gui.hdf_key_display = gui.current_state[2]
           /\ gui.image = None
           /\ gui.data_1d_2d = None
           /\ gui.enabled \cap (IMAGE_WIDGETS \cup PLOT_WIDGETS) = {}
           /\ gui.main_plot = BlankFigure

\* C5: every exception raised during a fetch, in opening the file,
\* classifying the dataset, reading its value or reading and rendering the
\* array, starts the link check of the diagnostic in the same pass.
C5_EveryFailureDiagnosed ==
    (Ticked /\ last.error # "")
        => (Len(last.diag) >= 1 /\ last.diag[1] = "link")

\* C6: the notices of a pass whose fetch failed are the link message alone
\* when the key is a broken external link, else the codec message alone
\* when the dataset needs an unavailable filter, else the raw exception
\* text followed by the generic hint.
C6_NoticesOfFailure ==
    (Ticked /\ last.error # "")
        => last.notes =
            IF ShownNode.link /\ last.link # "up" THEN <<LINK_BROKEN_MSG>>
            ELSE IF ShownNode.codec /\ ~last.lost THEN <<CODEC_MSG>>
            ELSE <<RAW_PREFIX \o last.error, HINT_MSG>>

\* C7: no exception escapes show_data.
C7_NothingEscapes == ~last.escaped

\* C8: at the end of a pass no file handle opened in the pass is open.
C8_HandlesClosed == Ticked => last.open = 0

\* C9: the render strategy of an array is chosen by its number of
\* dimensions: 3 gives the slice view, fewer the table or plot, more the
\* refusal.
C9_RouteByDimensions ==
    (Ticked /\ last.route \in {"3d", "1d2d", "nd"})
        => last.route = IF Len(ShownNode.shape) = 3 THEN "3d"
                        ELSE IF Len(ShownNode.shape) < 3 THEN "1d2d"
                        ELSE "nd"

\* C10: self.image and self.data_1d_2d are never both non-null.
C10_ImageOrData == ~(gui.image # None /\ gui.data_1d_2d # None)

\* C10 witness: a pass has rendered a slice, self.image is set and
\* self.data_1d_2d is null.
C10_Witness ==
    /\ Ticked
    /\ last.route = "3d"
    /\ gui.image # None
    /\ gui.data_1d_2d = None

\* a tick has run a pass: it fetched, or it found the selection empty and
\* reset the display
Passed ==
    /\ Ticked
    /\ (last.fetched \/ gui.file_path_display = ""
                     \/ gui.hdf_key_display = "")

\* C11: after every pass the contrast bounds satisfy
\* min_slider < max_slider: a pass over a 3-D slice clamps a min >= max to
\* max - 1, and every pass that resets restores (0, 255).
C11_ContrastOrdered ==
    Passed => /\ gui.min_slider < gui.max_slider
              /\ last.route # "3d" \/ last.raised # ""
                    => gui.min_slider = 0 /\ gui.max_slider = CONTRAST_MAX

\* C11 witness: the user had set min >= max on a displayed slice (the
\* sample the pass stored) and the pass has clamped min to max - 1.
C11_Witness ==
    /\ Ticked
    /\ last.route = "3d"
    /\ last.raised = ""
    /\ gui.current_state[9] >= gui.current_state[10]
    /\ gui.min_slider = gui.max_slider - 1

\* a tick has run display_3d_data to its end
Rendered3d == Ticked /\ last.route = "3d" /\ last.raised = ""

\* C12: after display_3d_data on an array of shape (D, H, W) the slice
\* slider's upper bound is D-1, H-1 or W-1 for axis 0, 1 or 2, the slider
\* is not above it, and the index of the plane that was read is within the
\* extent of its axis.
C12_SliderBound ==
    Rendered3d
        => /\ gui.slider_max = ShownNode.shape[gui.axis_list + 1] - 1
           /\ gui.main_slider <= gui.slider_max
           /\ gui.image[4] <
                Node(gui.image[1], gui.image[2]).shape[gui.image[3] + 1]

\* the contrast part of display_3d_data has run with the sliders off
\* (0, 255)
Stretched ==
    /\ job.op = "normalize"
    /\ (job.min_slider > 0 \/ job.max_slider < CONTRAST_MAX)

\* C13 as stated: after the contrast part of display_3d_data a slice whose
\* minimum equals its maximum gives an all-zero image of the slice's shape,
\* and any other slice an image whose values all lie within
\* [min_slider, max_slider].
C13_NormalizedRange ==
    job.op = "normalize"
        => /\ DOMAIN job.out.image_norm = DOMAIN job.image
           /\ IF SeqMin(job.image) = SeqMax(job.image)
              THEN \A i \in DOMAIN job.image : job.out.image_norm[i] = 0
              ELSE \A i \in DOMAIN job.image :
                        /\ job.out.image_norm[i] >= job.out.min_slider
                        /\ job.out.image_norm[i] <= job.out.max_slider

\* C13 amended: the same, when the contrast sliders are not at (0, 255);
\* with the sliders at (0, 255) the image is the slice itself.
C13_NormalizedRangeWhenStretched ==
    /\ Stretched => C13_NormalizedRange
    /\ (job.op = "normalize" /\ ~Stretched) => job.out.image_norm = job.image

\* C13 witness: a slice with distinct values has been rescaled and clipped
\* at both ends.
C13_Witness ==
    /\ Stretched
    /\ SeqMin(job.image) # SeqMax(job.image)
    /\ job.out.min_slider > 0
    /\ \E i \in DOMAIN job.image : job.out.image_norm[i] = job.out.min_slider
    /\ \E i \in DOMAIN job.image : job.out.image_norm[i] = job.out.max_slider

CellCount(shape) == IF Len(shape) = 1 THEN shape[1] ELSE shape[1] * shape[2]

\* C15: format_table_from_array returns (None, None) for every 1-D or 2-D
\* array of more than 1,000,000 cells, and builds a table for every array
\* at or below that ceiling.
C15_TableCeiling ==
    job.op = "table"
        => IF CellCount(job.data.shape) > TABLE_LIMIT * TABLE_LIMIT
           THEN job.out.rows = None /\ job.out.columns = None
           ELSE job.out.rows # None /\ job.out.columns # None

\* C16: save_table accepts a 2-D array exactly when it has at most
\* 4,000,000 cells: the limit itself is written, one cell more is refused
\* with the error message.
C16_SaveLimit ==
    (job.op = "save_table" /\ Len(job.shape) = 2 /\ job.openable)
        => IF job.shape[1] * job.shape[2] <= SAVE_LIMIT
           THEN job.out.error = "" /\ job.out.fs[job.file_path] = "rows"
           ELSE job.out.error = LIMIT_MSG

\* an export was refused: the array is over the limit, is neither 1-D nor
\* 2-D, or the extension is not supported
Refused ==
    \/ job.op = "save_table" /\ job.out.error \in {LIMIT_MSG, DIMS_MSG}
    \/ /\ job.op \in {"save_image", "save_data"}
       /\ job.out.notes \in {<<LIMIT_MSG>>, <<DIMS_MSG>>, <<EXT_IMAGE_MSG>>,
                              <<EXT_DATA_MSG>>}

\* C17: a refused export leaves the target path as it was: no file is
\* created and an existing file is neither truncated nor modified.
C17_RefusedLeavesTarget == Refused => job.out.fs = job.fs

\* C18: a dialog closed without a selection aborts the action: a cancelled
\* file pick adds no tree, writes no config record and leaves the instance,
\* with the displayed path and key, as it was; a cancelled save dialog of
\* save_image or save_data writes no file and shows no notice.
C18_CancelHasNoEffect ==
    /\ (job.op = "pick_file" /\ job.file_path = "")
            => /\ cards = job.cards
               /\ job.out.config = job.config
               /\ gui = job.gui
    /\ (job.op \in {"save_image", "save_data"} /\ job.file_path = "")
            => /\ job.out.fs = job.fs
               /\ job.out.notes = <<>>

\* C18 witness: the file dialog was closed without a file while a node of
\* an open file was shown and a config record existed.
C18_Witness ==
    /\ job.op = "pick_file"
    /\ job.file_path = ""
    /\ gui.file_path_display # ""
    /\ gui.hdf_key_display # ""
    /\ job.config # None

\* C19: main() started with a port that is already in use prints the
\* port-in-use message and exits with status 1 before the page,
\* GuiInteraction, its timer or ui.run is set up.
C19_PortInUseExits ==
    (job.op = "main" /\ job.port \in job.listening)
        => /\ job.out.printed = <<PORT_MSG>>
           /\ job.out.status = 1
           /\ job.out.events = <<>>

\* C19 witness: main() was started on the default port while a listener
\* held it.
C19_Witness ==
    /\ job.op = "main"
    /\ job.port = DEFAULT_PORT
    /\ DEFAULT_PORT \in job.listening
    /\ job.out.status = 1

\* C20: after every pass the image-only controls and the plot/table-only
\* controls are never enabled together: a pass that renders a 3-D slice
\* enables the former and disables the latter, a pass that renders a 1-D or
\* 2-D array does the reverse, and every other outcome (scalar, group, not
\* found, unknown type, 4-D and above, failure, empty selection) disables
\* both.
C20_ControlsExclusive ==
    Passed
        => LET image_on == gui.enabled \cap IMAGE_WIDGETS
               plot_on == gui.enabled \cap PLOT_WIDGETS
           IN  /\ image_on = {} \/ plot_on = {}
               /\ IF last.route = "3d" /\ last.raised = ""
                  THEN image_on = IMAGE_WIDGETS /\ plot_on = {}
                  ELSE IF last.route = "1d2d" /\ last.raised = ""
                  THEN image_on = {} /\ plot_on = PLOT_WIDGETS
                  ELSE image_on = {} /\ plot_on = {}

\* C20 witness: a pass has rendered a 1-D or 2-D array and the plot
\* controls alone are enabled.
C20_Witness ==
    /\ Passed
    /\ last.route = "1d2d"
    /\ last.raised = ""
    /\ gui.enabled \cap PLOT_WIDGETS = PLOT_WIDGETS
    /\ gui.enabled \cap IMAGE_WIDGETS = {}

\* C21: when display_3d_data has to read a new slice, with axis 2 on an
\* array whose depth and height both exceed 1000 the pass notifies, sets the
\* axis to 0 and the index to 0 and holds plane 0 along axis 0; with axis 1
\* on an array whose depth and width both exceed 1000 the pass only
\* notifies and holds the requested plane along axis 1, axis and index
\* unchanged.
C21_LargeSlicePolicy ==
    [][LET f == gui.file_path_display
           k == gui.hdf_key_display
           shape == Node(f, k).shape
           axis == gui.axis_list
           bound == shape[axis + 1] - 1
           d_pos == IF gui.main_slider > bound THEN bound
                    ELSE gui.main_slider
           must_read == \/ <<d_pos, axis, f>> # gui.current_slice
                        \/ gui.image = None
       IN  (/\ last'.op = "tick" /\ last'.route = "3d" /\ last'.raised = ""
            /\ must_read)
            => /\ (axis = 2 /\ shape[1] > BIG_DIM /\ shape[2] > BIG_DIM)
                    => /\ last'.notes = <<AXIS2_MSG>>
                       /\ gui'.axis_list = 0
                       /\ gui'.main_slider = 0
                       /\ gui'.image = <<f, k, 0, 0>>
               /\ (axis = 1 /\ shape[1] > BIG_DIM /\ shape[3] > BIG_DIM)
                    => /\ last'.notes = <<AXIS1_MSG>>
                       /\ gui'.axis_list = 1
                       /\ gui'.main_slider = d_pos
                       /\ gui'.image = <<f, k, 1, d_pos>>]_vars

\* C21 witness: a pass has fallen back from axis 2 of a large array and
\* holds plane 0 along axis 0.
C21_Witness ==
    /\ Ticked
    /\ last.route = "3d"
    /\ last.notes = <<AXIS2_MSG>>
    /\ gui.current_state[5] = 2
    /\ gui.axis_list = 0
    /\ gui.image = <<gui.file_path_display, gui.hdf_key_display, 0, 0>>

\* C22: zoom and profile are mutually exclusive: after any sequence of
\* checkbox clicks, image clicks and polling ticks enable_zoom and
\* enable_profile are never both checked, and at most one overlay among the
\* ROI rectangle, the vertical and the horizontal profile line is present
\* on the main image.
C22_ZoomOrProfile ==
    /\ ~(gui.enable_zoom /\ gui.enable_profile)
    /\ Cardinality(gui.main_plot.overlays) <= 1

\* C22 witness: a click on the image has drawn a horizontal profile line
\* while the profile box is checked.
C22_Witness ==
    /\ gui.enable_profile
    /\ ~gui.enable_zoom
    /\ gui.main_plot.overlays = {"hor_line"}

\* C23: an open dialog does not suspend polling: save_image and save_data
\* export the array held when the dialog is confirmed, not the one held
\* when it was opened, and write nothing, without a notice, if the view was
\* reset to null in the meantime.
C23_ExportsWhatIsHeldAtConfirm ==
    (job.op = "closed" /\ job.kind \in {"save_image", "save_data"})
        => /\ job.current = None
                => job.exported = None /\ job.notes = <<>>
           /\ (/\ job.current # None
               /\ job.file_path = "out.csv" \/ job.kind = "save_image"
               /\ job.file_path # "")
                => job.exported = job.current

\* C23 witness: a pass that ran while the save dialog was open replaced the
\* image, and the confirmed dialog exported the new one.
C23_Witness ==
    /\ job.op = "closed"
    /\ job.kind = "save_image"
    /\ job.held # None
    /\ job.current # None
    /\ job.held # job.current
    /\ job.exported = job.current

\* C24: the last-folder record is read before the dialog of pick_file
\* opens; a missing config file or a record without last_folder is treated
\* as empty and the dialog starts at the home folder; the record is written
\* only after a file has been selected, with the directory of that file;
\* and the next pick_file reads back exactly that directory.
C24_LastFolderLifecycle ==
    job.op = "pick_file"
        => /\ (job.config = None \/ job.config[2] # "last_folder")
                => job.out.loaded = "" /\ job.out.start = "~"
           /\ (job.config # None /\ job.config[2] = "last_folder")
                => /\ job.out.loaded = job.config[4]
                   /\ job.out.start = IF job.exists THEN job.config[4]
                                      ELSE "~"
           /\ job.file_path = "" => job.out.config = job.config
           /\ job.file_path # ""
                => job.out.config = <<"{", "last_folder", ":",
                                      "/dir/of/" \o job.file_path, "}">>
           /\ (job.round = 2 /\ job.earlier # "")
                => job.out.loaded = "/dir/of/" \o job.earlier

\* C24 witness: a second pick_file has read back the directory of the file
\* that the first one selected when no config file existed.
C24_Witness ==
    /\ job.op = "pick_file"
    /\ job.round = 2
    /\ job.earlier # ""
    /\ job.out.loaded = "/dir/of/" \o job.earlier
    /\ job.out.start = job.out.loaded

\* C25: in the file-pick dialog a file can be submitted exactly when its
\* extension is in the allow-list {hdf, hdf5, nxs, h5}, and this holds
\* identically for the double click on the row and for selecting the row
\* and pressing Ok.
C25_AllowListOnBothRoutes ==
    job.op = "pick_row"
        => LET name == job.filename
               allowed == /\ Len(name) >= 2
                          \* in lower or in upper case
                          /\ name[Len(name)] \in {"hdf", "hdf5", "nxs", "h5",
                                                   "H5"}
           IN  (job.out = name) <=> allowed

\* C26: quiescence.  Once the user makes no further input and the files
\* do not change, the polling loop reaches a state from which no later
\* tick has a fetch to perform: the writes of a pass to the sampled fields
\* do not retrigger fetches forever.
C26_Quiescence == <>[]Settled

\* C26 witness: the viewer left alone holds an image, its last tick
\* fetched nothing and no fetch is pending.
C26_Witness ==
    /\ job.op = "quiet"
    /\ Ticked
    /\ ~last.fetched
    /\ gui.image # None
    /\ ~WouldFetch(gui)

\* C29: in table display mode, a pass on a 1-D or 2-D array that the table
\* formatter rejects ends without an exception and outside the failure
\* path: it shows no notice and leaves the 1-D/2-D controls enabled.
C29_RejectedTableIsQuiet ==
    (/\ Ticked
     /\ last.fetched
     /\ last.route = "1d2d"
     /\ gui.current_state[7] = "table"
     /\ TableRejected(ShownNode.shape))
        => /\ last.raised = ""
           /\ last.notes = <<>>
           /\ PLOT_WIDGETS \subseteq gui.enabled

\* C30: for every image of height and width at least 1, every click inside
\* it and every zoom of 2, 4 or 8, get_image_roi returns a square region of
\* side size = 2 * rad >= 2 that lies inside the image, and roi has the
\* shape size x size.
C30_RoiInsideImage ==
    job.op = "get_image_roi"
        => LET out == job.out
               height == job.shape[1]
               width == job.shape[2]
           IN  /\ out.size >= 2
               /\ out.size % 2 = 0
               /\ 0 <= out.x_start /\ out.x_start + out.size <= width
               /\ 0 <= out.y_start /\ out.y_start + out.size <= height
               /\ out.roi = <<out.size, out.size>>

====
